---- MODULE Spec2Model ----
(***************************************************************************)
(* Model of neural_control/baselines/mpc.py: the class MPC (constructor,   *)
(* _initDynamics, solve).                                                  *)
(*                                                                         *)
(* Real quantities are integers in hundredths (2.0 -> 200, 9.81 -> 981).   *)
(* CasADi symbols are records that name the symbol, its column and row.    *)
(* The external solver (ca.nlpsol / ipopt) is an environment: it checks    *)
(* the shapes of its arguments and then either returns a vector of the     *)
(* decision vector's length (converged or not: error_on_fail is not set,   *)
(* so a non-converged iterate is returned like a solution) or raises.      *)
(*                                                                         *)
(* The class is modelled as defined. The module-level statements above it  *)
(* (mpc.py lines 12-29, which use torch and copter_params) are not part    *)
(* of the model.                                                           *)
(***************************************************************************)
EXTENDS Integers, Sequences, FiniteSets, TLC

VARIABLES
    phase,      \* "start" (no constructor call yet), "built", "failed"
    ctor,       \* arguments of the constructor call
    err,        \* class of the exception the last call raised, or "none"
    mpc,        \* scalar attributes set by __init__ (self._N, self._s_dim, ...)
    nlp_w,      \* self.nlp_w: list of symbolic blocks of the decision vector
    nlp_w0,     \* self.nlp_w0: initial guess / warm-start cache
    lbw, ubw,   \* self.lbw, self.ubw
    mpc_obj,    \* self.mpc_obj: the terms summed into the objective
    nlp_g,      \* self.nlp_g: list of constraint blocks
    lbg, ubg,   \* self.lbg, self.ubg
    solver,     \* self.solver: shapes of the NLP handed to ca.nlpsol
    sol,        \* self.sol: what the last returning solver call returned
    call,       \* the last solve call: its input (and the caller's list after the
                \* call), the cache before it, what reached
                \* the solver, the solver's outcome ("rejected": the solver refused
                \* the arguments' shapes) and what solve returned
    dyn         \* one evaluation of the function drone_dynamics_simple returns:
                \* its arguments and, once evaluated, its result

vars == <<phase, ctor, err, mpc, nlp_w, nlp_w0, lbw, ubw, mpc_obj, nlp_g,
          lbg, ubg, solver, sol, call, dyn>>

-----------------------------------------------------------------------------
(* Bounds of the model *)

MaxN == 11        \* horizons N = int(T/dt) in 1..MaxN are constructed
NumSeeds == 2     \* distinct vectors the solver may return per outcome
NumRefs == 2      \* distinct contents of the caller's ref_states list

(* Program constants *)

inf == 1000000    \* ca.inf
ReshapeRows == 10 \* .reshape((10, 13)) in solve
ReshapeCols == 13
QuatLo == 3       \* the slice 3:7 that solve sets to zero
QuatHi == 7

DtSet == {50, 100}                       \* dt in milliseconds
Dynamics == {"high_mpc", "simple_quad", "fixed_wing", "other"}
Outcomes == {"converged", "nonconverged", "raised"}

-----------------------------------------------------------------------------
(* Python list semantics *)

Min(a, b) == IF a < b THEN a ELSE b
Max(a, b) == IF a > b THEN a ELSE b

\* a slice bound i of a list of length n, as Python normalises it
NormIdx(n, i) == IF i < 0 THEN Max(n + i, 0) ELSE Min(i, n)

\* seq[lo:hi], 0-based, negative bounds counted from the end
PySlice(seq, lo, hi) ==
    SubSeq(seq, NormIdx(Len(seq), lo) + 1, NormIdx(Len(seq), hi))

\* seq[lo:]
PyFrom(seq, lo) == PySlice(seq, lo, Len(seq))

\* seq[lo:hi] = vals (slice assignment on a list: the slice is replaced)
PySliceAssign(seq, lo, hi, vals) ==
    LET l == NormIdx(Len(seq), lo)
        h == Max(NormIdx(Len(seq), hi), l)
    IN  SubSeq(seq, 1, l) \o vals \o SubSeq(seq, h + 1, Len(seq))

\* [v for _ in range(n)]
Repeat(v, n) == [i \in 1..n |-> v]

\* np.reshape(seq, (rows, cols)) is defined iff the sizes agree
CanReshape(seq, rows, cols) == Len(seq) = rows * cols

Reshape(seq, rows, cols) ==
    [r \in 1..rows |-> SubSeq(seq, (r - 1) * cols + 1, r * cols)]

\* ndarray.flatten().tolist() of a 2-d array
RECURSIVE Flatten(_)
Flatten(rows) ==
    IF Len(rows) = 0 THEN <<>> ELSE Head(rows) \o Flatten(Tail(rows))

\* the 0-based indices 0..n-1 of a vector of length n (to follow slices of symbols)
Indices(n) == [i \in 1..n |-> i - 1]

-----------------------------------------------------------------------------
(* MPC.__init__ *)

\* attributes every call of __init__ sets, whatever the model name
BaseAttrs(dynamics, T, dt) ==
    [ dynamics_model |-> dynamics,
      T  |-> T,
      dt |-> dt,
      N  |-> T \div dt,                  \* int(self._T / self._dt), T, dt > 0
      gz |-> 981,
      Q_goal  |-> <<100, 100, 100, 0, 0, 0, 0, 10, 10, 10>>,   \* diagonal
      Q_pen   |-> <<0, 100, 100, 0, 0, 0, 0, 0, 10, 10>>,      \* diagonal
      Q_u     |-> <<10, 10, 10, 10>>,                          \* diagonal, 0.1
      quad_s0 |-> <<100, 0, 0, 100, 0, 0, 0, 0, 0, 0>>,
      quad_u0 |-> <<981, 0, 0, 0>> ]

\* attributes the branch of the model name sets; none for an unknown name
VariantAttrs(dynamics) ==
    CASE dynamics = "high_mpc" ->
            [ w_max_yaw |-> 600, w_min_yaw |-> -600,
              w_max_xy  |-> 600, w_min_xy  |-> -600,
              thrust_min |-> 200, thrust_max |-> 2000,
              s_dim |-> 10, u_dim |-> 4 ]
      [] dynamics = "simple_quad" ->
            [ w_max_yaw |-> 100, w_min_yaw |-> 0,
              w_max_xy  |-> 100, w_min_xy  |-> 0,
              thrust_min |-> 0, thrust_max |-> 100,
              s_dim |-> 12, u_dim |-> 4 ]
      [] dynamics = "fixed_wing" ->
            [ s_dim |-> 6, u_dim |-> 2 ]
      [] OTHER -> << >>

InitAttrs(dynamics, T, dt) == VariantAttrs(dynamics) @@ BaseAttrs(dynamics, T, dt)

-----------------------------------------------------------------------------
(* MPC._initDynamics *)

\* The exception raised while F is chosen and mapped, or "none":
\* the simple_quad branch reads self.dt, an attribute that is never set;
\* any name but the first two leaves F unbound at F.map.
DynamicsError(a) ==
    CASE a.dynamics_model = "high_mpc"    -> "none"
      [] a.dynamics_model = "simple_quad" -> "AttributeError"
      [] OTHER                            -> "UnboundLocalError"

\* symbolic columns X[:, k], U[:, k] and a slice of P given by its indices
XCol(a, k) == [sym |-> "X", col |-> k, v |-> Indices(a.s_dim)]
UCol(a, k) == [sym |-> "U", col |-> k, v |-> Indices(a.u_dim)]
PPart(idx) == [sym |-> "P", col |-> 0, v |-> idx]
Const(vals) == [sym |-> "const", col |-> 0, v |-> vals]

\* length of P
PLen(a) == a.s_dim + (a.s_dim + 3) * a.N + a.s_dim

\* P[0:s_dim], the current state
StartSlice(a) == PySlice(Indices(PLen(a)), 0, a.s_dim)

\* P[s_dim + (s_dim+3)*N:], the goal
GoalSlice(a) == PyFrom(Indices(PLen(a)), a.s_dim + (a.s_dim + 3) * a.N)

\* RefSlice without the "- 3" that cuts the three trailing entries of a block
RefSliceWide(a, k) ==
    PySlice(Indices(PLen(a)), a.s_dim + (a.s_dim + 3) * k,
            a.s_dim + (a.s_dim + 3) * (k + 1))

\* P[s_dim + (s_dim+3)*k : s_dim + (s_dim+3)*(k+1) - 3], the k-th reference
RefSlice(a, k) ==
    PySlice(Indices(PLen(a)), a.s_dim + (a.s_dim + 3) * k,
            a.s_dim + (a.s_dim + 3) * (k + 1) - 3)

\* u_min with the thrust bounds mixed up
u_minSwapped(a) == <<a.thrust_max, a.w_min_xy, a.w_min_xy, a.w_min_yaw>>

u_min(a) == <<a.thrust_min, a.w_min_xy, a.w_min_xy, a.w_min_yaw>>
u_max(a) == <<a.thrust_max, a.w_max_xy, a.w_max_xy, a.w_max_yaw>>
x_min(a) == Repeat(-inf, a.s_dim)
x_max(a) == Repeat(inf, a.s_dim)
g_min(a) == Repeat(0, a.s_dim)
g_max(a) == Repeat(0, a.s_dim)

\* X_next with the transition taken from the next column's state
X_nextShifted(a, k) == [sym |-> "F", col |-> k, v |-> <<XCol(a, k + 1), UCol(a, k)>>]

\* X_next = fMap(X[:, :N], U): column k is F(X[:, k], U[:, k])
X_next(a, k) == [sym |-> "F", col |-> k, v |-> <<XCol(a, k), UCol(a, k)>>]

\* IsGoalStage with the comparison off by one: no stage is the goal stage
IsGoalStageLate(a, k) == k >= a.N

\* the test that selects the goal cost for stage k
IsGoalStage(a, k) == k >= a.N - 1

\* the state-cost term of stage k
StateCost(a, k) ==
    IF IsGoalStage(a, k)
    THEN [cost |-> "goal", k |-> k, a |-> XCol(a, k + 1), b |-> PPart(GoalSlice(a))]
    ELSE [cost |-> "gap",  k |-> k, a |-> XCol(a, k + 1), b |-> PPart(RefSlice(a, k))]

\* the control-cost term of stage k
ControlCost(a, k) ==
    [cost |-> "u", k |-> k, a |-> UCol(a, k), b |-> Const(<<a.gz, 0, 0, 0>>)]

\* the lists before the loop: state_0 is lifted and pinned to P[0:s_dim]
Lifted(a) ==
    [ nlp_w   |-> << XCol(a, 0) >>,
      nlp_w0  |-> a.quad_s0,
      lbw     |-> x_min(a),
      ubw     |-> x_max(a),
      mpc_obj |-> << >>,
      nlp_g   |-> << [lhs |-> XCol(a, 0), rhs |-> PPart(StartSlice(a))] >>,
      lbg     |-> g_min(a),
      ubg     |-> g_max(a) ]

\* one pass of `for k in range(self._N)`
LoopBody(a, k, st) ==
    [ nlp_w   |-> st.nlp_w \o << UCol(a, k), XCol(a, k + 1) >>,
      nlp_w0  |-> st.nlp_w0 \o a.quad_u0 \o a.quad_s0,
      lbw     |-> st.lbw \o u_min(a) \o x_min(a),
      ubw     |-> st.ubw \o u_max(a) \o x_max(a),
      mpc_obj |-> st.mpc_obj \o << StateCost(a, k), ControlCost(a, k) >>,
      nlp_g   |-> st.nlp_g \o << [lhs |-> X_next(a, k), rhs |-> XCol(a, k + 1)] >>,
      lbg     |-> st.lbg \o g_min(a),
      ubg     |-> st.ubg \o g_max(a) ]

RECURSIVE Loop(_, _, _)
Loop(a, k, st) == IF k >= a.N THEN st ELSE Loop(a, k + 1, LoopBody(a, k, st))

\* ca.vertcat(*blocks): one scalar symbol per row of every block
RECURSIVE Vertcat(_)
Vertcat(blocks) ==
    IF Len(blocks) = 0 THEN << >>
    ELSE [i \in 1..Len(Head(blocks).v) |->
             [sym |-> Head(blocks).sym, col |-> Head(blocks).col,
              row |-> Head(blocks).v[i]]]
         \o Vertcat(Tail(blocks))

\* number of rows of ca.vertcat(*self.nlp_g): every block has the rows of its left side
RECURSIVE GRows(_)
GRows(blocks) ==
    IF Len(blocks) = 0 THEN 0
    ELSE (IF Head(blocks).lhs.sym = "F"
          THEN Len(Head(blocks).lhs.v[1].v)      \* F returns a state
          ELSE Len(Head(blocks).lhs.v))
         + GRows(Tail(blocks))

\* ca.nlpsol("solver", "ipopt", nlp_dict, ipopt_options): the shapes it fixes
NlpSol(a, st) ==
    [ nx |-> Len(Vertcat(st.nlp_w)),
      np |-> PLen(a),
      ng |-> GRows(st.nlp_g),
      max_iter |-> 100 ]

-----------------------------------------------------------------------------
(* The external solver *)

\* CasADi accepts an argument of the input's shape, a scalar or an empty one
ShapeOK(v, n) == Len(v) \in {0, 1, n}

SolverArgsOK(h, x0, lbx, ubx, p, lbg_, ubg_) ==
    /\ ShapeOK(x0, h.nx) /\ ShapeOK(lbx, h.nx) /\ ShapeOK(ubx, h.nx)
    /\ ShapeOK(p, h.np)
    /\ ShapeOK(lbg_, h.ng) /\ ShapeOK(ubg_, h.ng)

\* bound i of a bound argument (a scalar or empty argument stands for every entry)
BoundAt(b, i, dflt) ==
    IF Len(b) = 0 THEN dflt ELSE IF Len(b) = 1 THEN b[1] ELSE b[i]

\* The vectors the solver may return: one entry per decision variable. A converged
\* solution respects lbx <= x <= ubx; entries of unbounded variables are told
\* apart by their position. A non-converged iterate is returned the same way.
SolX(h, lbx, ubx, outcome, seed) ==
    [i \in 1..h.nx |->
        LET lo == BoundAt(lbx, i, -inf)
            hi == BoundAt(ubx, i, inf)
        IN  IF lo <= -inf \/ hi >= inf \/ hi < lo
            THEN (IF outcome = "converged" THEN 1 ELSE -1) * (seed * 1000 + i)
            ELSE lo + ((seed * 37 + i * 13) % (hi - lo + 1))]

-----------------------------------------------------------------------------
(* MPC.solve *)

\* arr[:, lo:hi] = 0 on a 2-d array
ZeroCols(rows, lo, hi) ==
    [r \in 1..Len(rows) |->
        [j \in 1..Len(rows[r]) |->
            IF NormIdx(Len(rows[r]), lo) <= j - 1 /\ j - 1 < NormIdx(Len(rows[r]), hi)
            THEN 0 ELSE rows[r][j]]]

\* EndPart without the assignment end[3:7] = 0
EndPartKept(a, ref) == PySlice(ref, -a.s_dim, Len(ref))

\* end = ref_states[-s_dim:]; end[3:7] = [0 for _ in range(4)]
EndPart(a, ref) ==
    PySliceAssign(PySlice(ref, -a.s_dim, Len(ref)), QuatLo, QuatHi,
                  Repeat(0, QuatHi - QuatLo))

\* ref_states[s_dim:-s_dim], the list handed to np.array(...).reshape
MiddlePart(a, ref) == PySlice(ref, a.s_dim, -a.s_dim)

\* the high_mpc branch raises ValueError when the middle part cannot be reshaped
PackError(a, ref) ==
    IF a.dynamics_model = "high_mpc"
       /\ ~CanReshape(MiddlePart(a, ref), ReshapeRows, ReshapeCols)
    THEN "ValueError" ELSE "none"

\* the list passed as p
Pack(a, ref) ==
    IF a.dynamics_model = "high_mpc"
    THEN PySlice(ref, 0, a.s_dim)
         \o Flatten(ZeroCols(Reshape(MiddlePart(a, ref), ReshapeRows, ReshapeCols),
                             QuatLo, QuatHi))
         \o EndPart(a, ref)
    ELSE ref

\* OptU taken from the head of the vector instead of after state_0
OptUHead(a, x) == PySlice(x, 0, a.u_dim)

\* opt_u = sol_x0[s_dim : s_dim + u_dim]
OptU(a, x) == PySlice(x, a.s_dim, a.s_dim + a.u_dim)

\* WarmStart that drops stage 0 and appends nothing in its place
WarmStartDropped(a, x) == PyFrom(x, a.s_dim + a.u_dim)

\* self.nlp_w0 = list(sol_x0[s+u : 2*(s+u)]) + list(sol_x0[s+u:])
WarmStart(a, x) ==
    PySlice(x, a.s_dim + a.u_dim, 2 * (a.s_dim + a.u_dim))
    \o PyFrom(x, a.s_dim + a.u_dim)

\* x0_array = np.reshape(sol_x0[:-s_dim], newshape=(-1, s_dim + u_dim))
TrajRows(a, x) == Len(PySlice(x, 0, -a.s_dim)) \div (a.s_dim + a.u_dim)
TrajError(a, x) ==
    IF CanReshape(PySlice(x, 0, -a.s_dim), TrajRows(a, x), a.s_dim + a.u_dim)
    THEN "none" ELSE "ValueError"
X0Array(a, x) == Reshape(PySlice(x, 0, -a.s_dim), TrajRows(a, x), a.s_dim + a.u_dim)

\* CallerList if solve wrote its zeros into the caller's list and not into a copy
CallerListAliased(a, ref) ==
    IF a.dynamics_model = "high_mpc"
    THEN PySliceAssign(ref, QuatLo, QuatHi, Repeat(0, QuatHi - QuatLo))
    ELSE ref

\* The caller's list object after the call: solve only reads slices of it (slices of a
\* list are new lists) and rebinds its local name ref_states, so nothing is written.
CallerList(a, ref) == ref

NoCall ==
    [ made |-> FALSE, ref |-> << >>, ref_after |-> << >>, w0_before |-> << >>, invoked |-> FALSE, p |-> << >>,
      lbx |-> << >>, ubx |-> << >>, outcome |-> "none", returned |-> FALSE,
      opt_u |-> << >>, x0_array |-> << >> ]

-----------------------------------------------------------------------------
(* MPC.drone_dynamics_simple *)

\* Angles are counted in quarter turns, where cos and sin are integers
Cos(q) == CASE q % 4 = 0 -> 1 [] q % 4 = 1 -> 0 [] q % 4 = 2 -> -1 [] OTHER -> 0
Sin(q) == CASE q % 4 = 0 -> 0 [] q % 4 = 1 -> 1 [] q % 4 = 2 -> 0 [] OTHER -> -1

\* F(x, u) for F = drone_dynamics_simple(dt): x = (px, py, pz, ax, ay, az, vx, vy, vz,
\* avx, avy, avz), u = (thrust, wx, wy, wz); dt in milliseconds, mass (copter_params.mass)
\* and the other quantities in hundredths, quotients rounded down. The result is
\* ca.vertcat(px_new, py_new, pz_new, att_new, vx_new, vy_new, vz_new, av_new) with
\* att_new = 0 and av_new = 0, two scalars.
drone_dynamics_simple(dt, mass, x, u) ==
    LET thrust_scaled == u[1] * 10 - 500 + 700
        Cy == Cos(x[6])    Sy == Sin(x[6])
        Cp == Cos(x[5])    Sp == Sin(x[5])
        Cr == Cos(x[4])    Sr == Sin(x[4])
        const == (thrust_scaled * 100) \div mass
        acc_x == (Cy * Sp * Cr + Sr * Sy) * const
        acc_y == (Cr * Sy * Sp - Cy * Sr) * const
        acc_z == (Cr * Cp) * const - 981
        px_new == x[1] + (dt * dt * acc_x) \div 2000000 + (dt * x[7]) \div 2000
        py_new == x[2] + (dt * dt * acc_y) \div 2000000 + (dt * x[8]) \div 2000
        pz_new == x[3] + (dt * dt * acc_z) \div 2000000 + (dt * x[9]) \div 2000
        vx_new == x[7] + (dt * acc_x) \div 1000
        vy_new == x[8] + (dt * acc_y) \div 1000
        vz_new == x[9] + (dt * acc_z) \div 1000
        att_new == 0
        av_new == 0
    IN  << px_new, py_new, pz_new, att_new, vx_new, vy_new, vz_new, av_new >>

NoEval == [done |-> FALSE, dt |-> 0, mass |-> 0, x |-> << >>, u |-> << >>, out |-> << >>]

\* the arguments the function is evaluated on
SimpleStates ==
    { << px, 0, pz, ax, ay, az, vx, 0, vz, avx, 0, 20 >> :
        px \in {0, 100}, pz \in {100}, ax \in {0, 1}, ay \in {0, 1}, az \in {0, 1, 2},
        vx \in {0, 50}, vz \in {-30}, avx \in {0, 30} }
SimpleControls == { << thrust, 50, 50, 50 >> : thrust \in {0, 100} }
MassSet == {50, 100}

-----------------------------------------------------------------------------
(* The state machine *)

Init ==
    /\ phase = "start"
    /\ ctor = [dynamics |-> "", T |-> 0, dt |-> 0]
    /\ err = "none"
    /\ mpc = << >>
    /\ nlp_w = << >> /\ nlp_w0 = << >> /\ lbw = << >> /\ ubw = << >>
    /\ mpc_obj = << >> /\ nlp_g = << >> /\ lbg = << >> /\ ubg = << >>
    /\ solver = << >>
    /\ sol = << >>
    /\ call = NoCall
    /\ dyn = NoEval

\* MPC(T, dt, dynamics): __init__ followed by _initDynamics
Construct(dynamics, T, dt) ==
    /\ phase = "start"
    /\ ctor' = [dynamics |-> dynamics, T |-> T, dt |-> dt]
    /\ LET a  == InitAttrs(dynamics, T, dt)
       IN  IF DynamicsError(a) # "none"
           THEN /\ phase' = "failed"
                /\ err' = DynamicsError(a)
                /\ UNCHANGED <<mpc, nlp_w, nlp_w0, lbw, ubw, mpc_obj, nlp_g,
                               lbg, ubg, solver>>
           ELSE LET st == Loop(a, 0, Lifted(a))
                IN  /\ phase' = "built"
                    /\ err' = "none"
                    /\ mpc' = a
                    /\ nlp_w' = st.nlp_w
                    /\ nlp_w0' = st.nlp_w0
                    /\ lbw' = st.lbw
                    /\ ubw' = st.ubw
                    /\ mpc_obj' = st.mpc_obj
                    /\ nlp_g' = st.nlp_g
                    /\ lbg' = st.lbg
                    /\ ubg' = st.ubg
                    /\ solver' = NlpSol(a, st)
    /\ UNCHANGED <<sol, call, dyn>>

\* controller.solve(ref_states); outcome and seed are the solver's choice
Solve(ref, outcome, seed) ==
    /\ phase = "built"
    /\ UNCHANGED <<phase, ctor, mpc, nlp_w, lbw, ubw, mpc_obj, nlp_g, lbg, ubg, solver,
                   dyn>>
    /\ LET this == [NoCall EXCEPT !.made = TRUE, !.ref = ref, !.w0_before = nlp_w0,
                                 !.ref_after = CallerList(mpc, ref)]
       IN
       IF PackError(mpc, ref) # "none"
       THEN \* raised before the solver is called
            /\ err' = PackError(mpc, ref)
            /\ call' = this
            /\ UNCHANGED <<nlp_w0, sol>>
       ELSE
       LET p    == Pack(mpc, ref)
           sent == [this EXCEPT !.invoked = TRUE, !.p = p, !.lbx = lbw, !.ubx = ubw]
       IN
       IF ~SolverArgsOK(solver, nlp_w0, lbw, ubw, p, lbg, ubg) \/ outcome = "raised"
       THEN \* the solver call raises: self.sol is not assigned
            /\ err' = "RuntimeError"
            /\ call' = [sent EXCEPT !.outcome =
                           IF SolverArgsOK(solver, nlp_w0, lbw, ubw, p, lbg, ubg)
                           THEN "raised" ELSE "rejected"]
            /\ UNCHANGED <<nlp_w0, sol>>
       ELSE
       LET x == SolX(solver, lbw, ubw, outcome, seed)
       IN  /\ sol' = [x |-> x]
           /\ nlp_w0' = WarmStart(mpc, x)
           /\ IF TrajError(mpc, x) # "none"
              THEN /\ err' = TrajError(mpc, x)
                   /\ call' = [sent EXCEPT !.outcome = outcome]
              ELSE /\ err' = "none"
                   /\ call' = [sent EXCEPT !.outcome = outcome, !.returned = TRUE,
                                           !.opt_u = OptU(mpc, x),
                                           !.x0_array = X0Array(mpc, x)]

\* the ref_states lists callers pass: the right length, the lengths around it,
\* empty, short ones, and the length the reshape in solve expects
RefLens(a) ==
    { 0, 5, 2 * a.s_dim, PLen(a) - 1, PLen(a), PLen(a) + 1,
      2 * a.s_dim + ReshapeRows * ReshapeCols }

RefList(r, n) == [i \in 1..n |-> r * 1000 + i]

Next ==
    \/ \E dynamics \in Dynamics, dt \in DtSet, n \in 1..MaxN :
          Construct(dynamics, n * dt, dt)
    \/ /\ phase = "built"
       /\ \E n \in RefLens(mpc), r \in 1..NumRefs, outcome \in Outcomes,
             seed \in 1..NumSeeds :
             Solve(RefList(r, n), outcome, seed)

Spec == Init /\ [][Next]_vars

\* The simplified model's transition on its own: the arguments are drawn at the start,
\* the one step evaluates the function on them.
InitDyn ==
    /\ phase = "start"
    /\ ctor = [dynamics |-> "", T |-> 0, dt |-> 0]
    /\ err = "none"
    /\ mpc = << >>
    /\ nlp_w = << >> /\ nlp_w0 = << >> /\ lbw = << >> /\ ubw = << >>
    /\ mpc_obj = << >> /\ nlp_g = << >> /\ lbg = << >> /\ ubg = << >>
    /\ solver = << >>
    /\ sol = << >>
    /\ call = NoCall
    /\ \E dt \in DtSet, mass \in MassSet, x \in SimpleStates, u \in SimpleControls :
          dyn = [NoEval EXCEPT !.dt = dt, !.mass = mass, !.x = x, !.u = u]

EvalSimple ==
    /\ ~dyn.done
    /\ dyn' = [dyn EXCEPT !.done = TRUE,
                          !.out = drone_dynamics_simple(dyn.dt, dyn.mass, dyn.x, dyn.u)]
    /\ UNCHANGED <<phase, ctor, err, mpc, nlp_w, nlp_w0, lbw, ubw, mpc_obj, nlp_g,
                   lbg, ubg, solver, sol, call>>

NextDyn == EvalSimple

SpecDyn == InitDyn /\ [][NextDyn]_vars

-----------------------------------------------------------------------------
(* Vocabulary of the properties *)

Built == phase = "built"

Variants == {"high_mpc", "simple_quad", "fixed_wing"}

\* stage i < N of a decision vector: (state_i, control_i)
Stage(vec, i) ==
    PySlice(vec, i * (mpc.s_dim + mpc.u_dim), (i + 1) * (mpc.s_dim + mpc.u_dim))

\* the final state of a decision vector
TailState(vec) == PyFrom(vec, mpc.N * (mpc.s_dim + mpc.u_dim))

\* n consecutive indices from lo on
Run(lo, n) == [i \in 1..n |-> lo + i - 1]

Range(f) == {f[i] : i \in DOMAIN f}

-----------------------------------------------------------------------------
(* C1..C5: error handling and construction *)

\* C1: when the solver reports non-convergence or a numerical failure, solve fails with
\* an OptimizationFailure and leaves the warm-start cache as it was before the call.
C1_FailedSolveKeepsCache ==
    (Built /\ call.made /\ call.outcome \in {"nonconverged", "raised"})
        => (err = "OptimizationFailure" /\ nlp_w0 = call.w0_before)

\* C2: after a successful solve, stage i of the cache is stage i+1 of the solution for
\* every i < N-1, and the cache ends with the solution's tail (full length kept).
C2_WarmStartShift ==
    (Built /\ call.returned /\ call.outcome = "converged")
        => /\ \A i \in 0..(mpc.N - 2) : Stage(nlp_w0, i) = Stage(sol.x, i + 1)
           /\ Len(nlp_w0) = Len(sol.x)
           /\ TailState(nlp_w0) = TailState(sol.x)

\* C3: solve with a list of the wrong length fails with a ConfigurationError before the
\* solver is invoked and leaves the warm-start cache unchanged.
C3_BadLengthRejected ==
    (Built /\ call.made /\ Len(call.ref) # PLen(mpc))
        => (err = "ConfigurationError" /\ ~call.invoked /\ nlp_w0 = call.w0_before)

\* C4: constructing with an unrecognised model name fails with a ConfigurationError
\* during construction, so that no controller exists.
C4_UnknownModelRejected ==
    (phase # "start" /\ ctor.dynamics \notin Variants)
        => (phase = "failed" /\ err = "ConfigurationError")

\* C5: construction completes for each of the three variants with state dimension
\* 10, 12 and 6, and no later solve changes the variant or its dimensions.
C5_VariantsConstruct ==
    (phase # "start" /\ ctor.dynamics \in Variants)
        => /\ Built
           /\ mpc.dynamics_model = ctor.dynamics
           /\ mpc.s_dim = (CASE ctor.dynamics = "high_mpc" -> 10
                             [] ctor.dynamics = "simple_quad" -> 12
                             [] ctor.dynamics = "fixed_wing" -> 6)

-----------------------------------------------------------------------------
(* C6..C10: the parameter vector and the structure of the NLP *)

\* 0-based index j of the parameter vector is a quaternion component (3..6) of an
\* interior reference slice or of the goal
IsQuatIndex(j) ==
    \/ \E k \in 0..(mpc.N - 1) :
          j - (mpc.s_dim + (mpc.s_dim + 3) * k) \in 3..6
    \/ j - (mpc.s_dim + (mpc.s_dim + 3) * mpc.N) \in 3..6

\* C6: for the full model, the parameter vector the solver accepts is the caller's list
\* with the quaternion components (3..6) of every interior slice and of the goal set to
\* zero and every other entry unchanged, in the same order.
C6_QuaternionZeroed ==
    (Built /\ mpc.dynamics_model = "high_mpc" /\ call.invoked
           /\ call.outcome # "rejected")
        => /\ Len(call.p) = Len(call.ref)
           /\ Len(call.p) = PLen(mpc)
           /\ \A j \in 0..(Len(call.p) - 1) :
                 call.p[j + 1] = IF IsQuatIndex(j) THEN 0 ELSE call.ref[j + 1]

C6_Witness ==
    /\ Built /\ mpc.dynamics_model = "high_mpc"
    /\ call.returned
    /\ \E j \in 0..(Len(call.p) - 1) :
          IsQuatIndex(j) /\ call.ref[j + 1] # 0 /\ call.p[j + 1] = 0

\* the terms of the objective of a kind for stage k
Terms(kind, k) == {i \in DOMAIN mpc_obj : mpc_obj[i].cost = kind /\ mpc_obj[i].k = k}

\* C7: every stage k in 0..N-1 has the control-effort term on (control_k - hover
\* control); the last stage has the goal term on state_{k+1} and no path term; every
\* earlier stage has the path term on (state_{k+1} - reference_k) and no goal term.
C7_StageCosts ==
    Built =>
        /\ Len(mpc_obj) = 2 * mpc.N
        /\ \A k \in 0..(mpc.N - 1) :
              /\ \E i \in DOMAIN mpc_obj :
                    /\ Terms("u", k) = {i}
                    /\ mpc_obj[i].a = [sym |-> "U", col |-> k, v |-> Run(0, mpc.u_dim)]
                    /\ mpc_obj[i].b = [sym |-> "const", col |-> 0, v |-> mpc.quad_u0]
              /\ IF k = mpc.N - 1
                 THEN /\ Terms("gap", k) = {}
                      /\ \E i \in DOMAIN mpc_obj :
                            /\ Terms("goal", k) = {i}
                            /\ mpc_obj[i].a =
                                  [sym |-> "X", col |-> k + 1, v |-> Run(0, mpc.s_dim)]
                            /\ mpc_obj[i].b =
                                  [sym |-> "P", col |-> 0,
                                   v |-> Run(mpc.s_dim + (mpc.s_dim + 3) * mpc.N,
                                             mpc.s_dim)]
                 ELSE /\ Terms("goal", k) = {}
                      /\ \E i \in DOMAIN mpc_obj :
                            /\ Terms("gap", k) = {i}
                            /\ mpc_obj[i].a =
                                  [sym |-> "X", col |-> k + 1, v |-> Run(0, mpc.s_dim)]
                            /\ mpc_obj[i].b =
                                  [sym |-> "P", col |-> 0,
                                   v |-> Run(mpc.s_dim + (mpc.s_dim + 3) * k, mpc.s_dim)]

C7_Witness ==
    /\ Built /\ mpc.N >= 3
    /\ Terms("goal", mpc.N - 1) # {} /\ Terms("gap", 0) # {} /\ Terms("u", 1) # {}

\* the index ranges of P that the NLP reads: current state, the references, the goal
PReads ==
    << StartSlice(mpc) >> \o [k \in 1..mpc.N |-> RefSlice(mpc, k - 1)]
                          \o << GoalSlice(mpc) >>

\* C8: P has length s + (s+3)N + s; the current state is P[0, s), reference_k the first
\* s entries of the k-th (s+3)-wide block after it, the goal the last s entries; all
\* these ranges lie inside P, have length s, and are pairwise disjoint.
C8_ParameterLayout ==
    Built =>
        /\ solver.np = mpc.s_dim + (mpc.s_dim + 3) * mpc.N + mpc.s_dim
        /\ nlp_g[1].rhs.v = Run(0, mpc.s_dim)
        /\ \A k \in 0..(mpc.N - 1) :
              RefSlice(mpc, k) = Run(mpc.s_dim + (mpc.s_dim + 3) * k, mpc.s_dim)
        /\ \A i \in DOMAIN mpc_obj :
              mpc_obj[i].cost = "gap" => mpc_obj[i].b.v = RefSlice(mpc, mpc_obj[i].k)
        /\ GoalSlice(mpc) = Run(solver.np - mpc.s_dim, mpc.s_dim)
        /\ \A i \in DOMAIN PReads :
              /\ Len(PReads[i]) = mpc.s_dim
              /\ Range(PReads[i]) \subseteq 0..(solver.np - 1)
              /\ \A j \in DOMAIN PReads :
                    i # j => Range(PReads[i]) \cap Range(PReads[j]) = {}

C8_Witness ==
    /\ Built /\ mpc.N >= 2
    /\ \E i \in DOMAIN mpc_obj : mpc_obj[i].cost = "gap" /\ mpc_obj[i].k = mpc.N - 2

\* the control box of the vehicle
BoxMin == <<mpc.thrust_min, mpc.w_min_xy, mpc.w_min_xy, mpc.w_min_yaw>>
BoxMax == <<mpc.thrust_max, mpc.w_max_xy, mpc.w_max_xy, mpc.w_max_yaw>>

InBox(u) == \A j \in 1..mpc.u_dim : BoxMin[j] <= u[j] /\ u[j] <= BoxMax[j]

\* C9: the bound arrays handed to the solver carry the control box at exactly the
\* control positions of [state_0, control_0, ..., control_{N-1}, state_N] and -inf/+inf
\* at the state positions, so every control a successful solve returns is in the box.
C9_ControlBounds ==
    Built =>
        LET w == Vertcat(nlp_w)
        IN  /\ Len(nlp_w) = 2 * mpc.N + 1
            /\ \A b \in DOMAIN nlp_w :
                  /\ nlp_w[b].sym = (IF b % 2 = 1 THEN "X" ELSE "U")
                  /\ nlp_w[b].col = (b - 1) \div 2
            /\ Len(lbw) = Len(w) /\ Len(ubw) = Len(w)
            /\ \A i \in DOMAIN w :
                  IF w[i].sym = "U"
                  THEN lbw[i] = BoxMin[w[i].row + 1] /\ ubw[i] = BoxMax[w[i].row + 1]
                  ELSE lbw[i] = -inf /\ ubw[i] = inf
            /\ call.invoked => (call.lbx = lbw /\ call.ubx = ubw)
            /\ (call.returned /\ call.outcome = "converged") =>
                  /\ InBox(call.opt_u)
                  /\ Len(call.x0_array) = mpc.N
                  /\ \A r \in DOMAIN call.x0_array :
                        InBox(PyFrom(call.x0_array[r], mpc.s_dim))

C9_Witness ==
    /\ Built /\ call.returned /\ call.outcome = "converged"
    /\ Len(call.x0_array) >= 2
    /\ \E r \in DOMAIN call.x0_array : call.x0_array[r][mpc.s_dim + 1] # BoxMin[1]

\* C10: there are (N+1)*s scalar equality constraints, all with bounds 0 = 0: the
\* first s pin state_0 to P[0, s), and block k pins state_{k+1} to the transition of
\* (state_k, control_k); the bound arrays are as long as the constraint vector.
C10_EqualityConstraints ==
    Built =>
        /\ solver.ng = (mpc.N + 1) * mpc.s_dim
        /\ Len(lbg) = solver.ng /\ Len(ubg) = solver.ng
        /\ \A i \in DOMAIN lbg : lbg[i] = 0 /\ ubg[i] = 0
        /\ Len(nlp_g) = mpc.N + 1
        /\ nlp_g[1] = [lhs |-> [sym |-> "X", col |-> 0, v |-> Run(0, mpc.s_dim)],
                       rhs |-> [sym |-> "P", col |-> 0, v |-> Run(0, mpc.s_dim)]]
        /\ \A k \in 0..(mpc.N - 1) :
              /\ nlp_g[k + 2].lhs.sym = "F"
              /\ nlp_g[k + 2].lhs.v =
                    << [sym |-> "X", col |-> k, v |-> Run(0, mpc.s_dim)],
                       [sym |-> "U", col |-> k, v |-> Run(0, mpc.u_dim)] >>
              /\ nlp_g[k + 2].rhs =
                    [sym |-> "X", col |-> k + 1, v |-> Run(0, mpc.s_dim)]

C10_Witness ==
    /\ Built /\ mpc.N >= 2
    /\ Len(nlp_g) = mpc.N + 1 /\ Len(lbg) > 2 * mpc.s_dim

-----------------------------------------------------------------------------
(* C11..C16 *)

\* the n entries of vec after its first lo entries
Seg(vec, lo, n) == [i \in 1..n |-> vec[lo + i]]

\* C11 as stated: the returned first control is the u_dim entries after state_0, and the
\* returned trajectory is the whole horizon trajectory of the same solution, N+1 states
\* and N controls in stage order, whose first control is the returned one.
C11_ReturnsWholeTrajectory ==
    (Built /\ call.returned)
        => /\ call.opt_u = Seg(sol.x, mpc.s_dim, mpc.u_dim)
           /\ Flatten(call.x0_array) = sol.x
           /\ Len(Flatten(call.x0_array))
                 = (mpc.N + 1) * mpc.s_dim + mpc.N * mpc.u_dim

\* C11 amended: the returned first control is the u_dim entries after state_0; the
\* returned trajectory has N rows, row k being (state_k, control_k) of the same
\* solution in stage order; the final state state_N is not part of it; the control of
\* row 0 is the returned first control.
C11_ReturnsStages ==
    (Built /\ call.returned)
        => /\ call.opt_u = Seg(sol.x, mpc.s_dim, mpc.u_dim)
           /\ Len(call.x0_array) = mpc.N
           /\ \A k \in 0..(mpc.N - 1) :
                 call.x0_array[k + 1]
                    = Seg(sol.x, k * (mpc.s_dim + mpc.u_dim), mpc.s_dim + mpc.u_dim)
           /\ Seg(call.x0_array[1], mpc.s_dim, mpc.u_dim) = call.opt_u
           /\ Len(Flatten(call.x0_array)) = Len(sol.x) - mpc.s_dim

C11_Witness ==
    /\ Built /\ call.returned /\ call.outcome = "converged"
    /\ Len(call.x0_array) = mpc.N /\ mpc.N >= 2
    /\ call.opt_u # Seg(sol.x, 0, mpc.u_dim)

\* every attribute the constructor set is as the constructor left it, and the caller's
\* list is as it was passed
FrameKept ==
    LET a  == InitAttrs(ctor.dynamics, ctor.T, ctor.dt)
        st == Loop(a, 0, Lifted(a))
    IN  /\ mpc = a
        /\ mpc.N = ctor.T \div ctor.dt /\ mpc.dt = ctor.dt
        /\ mpc.dynamics_model = ctor.dynamics
        /\ lbw = st.lbw /\ ubw = st.ubw
        /\ lbg = st.lbg /\ ubg = st.ubg
        /\ nlp_w = st.nlp_w /\ nlp_g = st.nlp_g /\ mpc_obj = st.mpc_obj
        /\ solver = NlpSol(a, st)
        /\ call.made => call.ref_after = call.ref

\* C12 as stated: solve changes no attribute of the controller but the warm-start cache,
\* and does not modify the caller's list.
C12_OnlyCacheMutated == Built => (FrameKept /\ sol = << >>)

\* C12 amended: solve changes no attribute but the warm-start cache and self.sol, the
\* stored result of the last solver call; bounds, constraint bounds, weights, N, dt,
\* variant and solver handle stay as constructed and the caller's list is not modified.
C12_FrameKept == Built => FrameKept

C12_Witness ==
    /\ Built /\ call.returned
    /\ nlp_w0 # call.w0_before /\ sol # << >>
    /\ Len(call.ref) > 0 /\ call.ref_after = call.ref /\ call.p # call.ref

\* C13: at construction the cache is the static seed (hover state N+1 times interleaved
\* with hover control N times); at construction and after any sequence of solves it has
\* one entry per decision variable, (N+1)*s_dim + N*u_dim, laid out as
\* [state, control, state, ..., control, state]: a state entry of the solution sits at
\* every state position, a control entry at every control position, component by component.
C13_CacheShape ==
    Built =>
        LET w == Vertcat(nlp_w)
        IN  /\ Len(nlp_w0) = (mpc.N + 1) * mpc.s_dim + mpc.N * mpc.u_dim
            /\ Len(nlp_w0) = Len(w)
            /\ sol = << >> =>
                  \A i \in DOMAIN w :
                     nlp_w0[i] = IF w[i].sym = "X" THEN mpc.quad_s0[w[i].row + 1]
                                                   ELSE mpc.quad_u0[w[i].row + 1]
            /\ sol # << >> =>
                  \A i \in DOMAIN w :
                     \E j \in DOMAIN w :
                        /\ w[j].sym = w[i].sym /\ w[j].row = w[i].row
                        /\ nlp_w0[i] = sol.x[j]

C13_Witness ==
    /\ Built /\ call.returned /\ call.outcome = "converged"
    /\ sol # << >> /\ nlp_w0 # call.w0_before
    /\ Len(nlp_w0) = (mpc.N + 1) * mpc.s_dim + mpc.N * mpc.u_dim

\* C14: the simplified model's transition maps a 12-dimensional state and a control to a
\* next state of dimension 12 in the same component order, with attitude (components
\* 3..5) and angular velocity (9..11) passed through unchanged.
C14_SimplePassthrough ==
    dyn.done =>
        /\ Len(dyn.out) = 12
        /\ Len(dyn.out) = Len(dyn.x)
        /\ \A i \in (4..6) \cup (10..12) : dyn.out[i] = dyn.x[i]

\* C16: for a full-model controller with any horizon N >= 1, solve with a list of the
\* right length s_dim + (s_dim+3)*N + s_dim is accepted and reaches the solver.
C16_RightLengthAccepted ==
    (Built /\ mpc.dynamics_model = "high_mpc" /\ call.made
           /\ Len(call.ref) = PLen(mpc))
        => (call.invoked /\ call.outcome # "rejected" /\ err # "ValueError")

====
